---------------------------- MODULE Spec2Model ----------------------------
(***************************************************************************)
(* The Vyber audio engine (src/vyber/audio_engine.py): clip decoding and   *)
(* caching, playback instances, the mix tick, the device session and the   *)
(* microphone ring buffer.                                                 *)
(*                                                                         *)
(* Numbers.  A float sample s is the integer s * FULL, a float volume v is *)
(* the integer v * VOL.  A block that went through an instance volume and  *)
(* the master volume is therefore in units of 1 / ONE, ONE = FULL*VOL*VOL, *)
(* and the float 1.0 of np.clip is the integer ONE.                        *)
(***************************************************************************)
EXTENDS Integers, Sequences, FiniteSets, TLC

\* ---------------------------------------------------------------- constants
SAMPLE_RATE == 48000
CHANNELS == 2
\* BLOCK_SIZE is 1024 in the source; the model runs the same code on short blocks.
BLOCK_SIZE == 2
\* How many instances the live set may hold before play_sound is no longer explored.
MaxPlaying == 2

FULL == 2
VOL == 10
ONE == FULL * VOL * VOL

None == "None"

Min(a, b) == IF a <= b THEN a ELSE b
Max(a, b) == IF a >= b THEN a ELSE b

\* ------------------------------------------------------------------- blocks
\* A block is a sequence of frames, a frame a sequence of CHANNELS samples.
ZeroFrame == [c \in 1..CHANNELS |-> 0]
Zeros(n) == [i \in 1..n |-> ZeroFrame]
AddBlocks(x, y) == [i \in 1..Len(x) |-> [c \in 1..CHANNELS |-> x[i][c] + y[i][c]]]
ScaleBlock(x, k) == [i \in 1..Len(x) |-> [c \in 1..CHANNELS |-> x[i][c] * k]]
\* np.clip(x, -lim, lim)
ClipBlock(x, lim) ==
    [i \in 1..Len(x) |-> [c \in 1..CHANNELS |-> Max(0 - lim, Min(lim, x[i][c]))]]
IsSilent(x) == \A i \in 1..Len(x) : \A c \in 1..CHANNELS : x[i][c] = 0

\* ------------------------------------------------------------------ SoundClip
\* SoundClip._ensure_stereo; data comes from sf.read(always_2d=True), so it is a
\* sequence of frames of ch >= 1 samples each (the ndim == 1 branch cannot be taken).
ensure_stereo(data, ch) ==
    IF ch = 1 THEN [i \in 1..Len(data) |-> <<data[i][1], data[i][1]>>]
    ELSE IF ch > 2 THEN [i \in 1..Len(data) |-> <<data[i][1], data[i][2]>>]
    ELSE data

\* The nearest integer to num / den, a tie going to the even one (Python's round).
Round(num, den) ==
    LET q == num \div den
        r == num % den
    IN  IF 2 * r < den THEN q
        ELSE IF 2 * r > den THEN q + 1
        ELSE IF q % 2 = 0 THEN q ELSE q + 1

\* A resampler that rounds the new length.
new_length_rounded(len, orig_sr, target_sr) == Round(len * target_sr, orig_sr)

\* int(len(data) * ratio), ratio = target_sr / orig_sr: int() truncates, and the
\* product is not negative.
new_length(len, orig_sr, target_sr) == (len * target_sr) \div orig_sr

\* A float written to the float32 array: the nearest sample of the model's grid.
Nearest(num, den) == (2 * num + den) \div (2 * den)

\* SoundClip._resample: np.linspace(0, len - 1, n) is i * (len - 1) / (n - 1) for
\* i = 0..n-1 (the single index 0 when n = 1, nothing when n = 0).
resample(data, orig_sr, target_sr) ==
    IF orig_sr = target_sr THEN data
    ELSE LET len == Len(data)
             n == new_length(len, orig_sr, target_sr)
             den == IF n > 1 THEN n - 1 ELSE 1
             pos(i) == IF n > 1 THEN (i - 1) * (len - 1) ELSE 0
             left_idx(i) == pos(i) \div den
             right_idx(i) == Min(left_idx(i) + 1, len - 1)
             frac(i) == pos(i) % den
         IN  [i \in 1..n |->
                [c \in 1..CHANNELS |->
                    Nearest(data[left_idx(i) + 1][c] * (den - frac(i))
                              + data[right_idx(i) + 1][c] * frac(i), den)]]

\* SoundClip._load_soundfile on what sf.read returned: file = [sr, ch, data].
load_soundfile(file, target_rate) ==
    LET stereo == ensure_stereo(file.data, file.ch)
    IN  IF file.sr # target_rate THEN resample(stereo, file.sr, target_rate)
        ELSE stereo

\* ---------------------------------------------------------------- the files
\* What sf.read returns for each path of the sound library: the native sample
\* rate, the channel count and the frames.  "a.wav" is a mono clip of full-scale
\* positive samples, a whole number of blocks long; "b.wav" is a stereo clip that
\* ends inside a block; "bad.wav" cannot be decoded (sf.read raises).
Paths == {"a.wav", "b.wav", "bad.wav"}
Decodable == {"a.wav", "b.wav"}
File(filepath) ==
    IF filepath = "a.wav"
    THEN [data |-> [i \in 1..(2 * BLOCK_SIZE) |-> <<FULL>>], ch |-> 1, sr |-> 48000]
    ELSE [data |-> [i \in 1..(BLOCK_SIZE + 1) |-> <<0 - FULL, i % 2>>],
          ch |-> 2, sr |-> 44100]

\* A SoundClip is its filepath and the rate it was decoded for; its data is what
\* SoundClip.__init__ computed from the file for that rate.
SoundClip(filepath, target_rate) == [filepath |-> filepath, sample_rate |-> target_rate]
\* No clip: what load_sound returns when the decode raised, and an empty cache slot.
NoClip == [filepath |-> "", sample_rate |-> 0]
\* The rates an engine of the model ever decodes for, and each file decoded for
\* each of them.
EngineRates == {SAMPLE_RATE, 44100}
Decoded == [f \in Paths, r \in EngineRates |-> load_soundfile(File(f), r)]
ClipData(clip) == Decoded[clip.filepath, clip.sample_rate]

\* --------------------------------------------------------------- PlayingSound
\* PlayingSound.__init__
PlayingSound(clip, volume) ==
    [clip |-> clip, volume |-> volume, position |-> 0, finished |-> FALSE]

\* A get_samples that returns the last frames of the clip without padding.
get_samples_unpadded(ps, data, num_frames) ==
    LET remaining == Len(data) - ps.position
        count == Min(num_frames, remaining)
    IN  IF ps.finished
        THEN [samples |-> Zeros(num_frames), ps |-> ps, data |-> data]
        ELSE IF remaining <= 0
        THEN [samples |-> Zeros(num_frames), ps |-> [ps EXCEPT !.finished = TRUE],
              data |-> data]
        ELSE [samples |->
                  ScaleBlock(SubSeq(data, ps.position + 1, ps.position + count),
                             ps.volume),
              ps |-> [ps EXCEPT !.position = ps.position + count,
                                !.finished = (count < num_frames)],
              data |-> data]

\* A get_samples that scales the slice of the clip without copying it: the
\* float32 frames of the clip themselves are multiplied by the volume.
get_samples_in_place(ps, data, num_frames) ==
    LET remaining == Len(data) - ps.position
        count == Min(num_frames, remaining)
        scaled == [i \in 1..Len(data) |->
                      IF i > ps.position /\ i <= ps.position + count
                      THEN [c \in 1..CHANNELS |-> Nearest(data[i][c] * ps.volume, VOL)]
                      ELSE data[i]]
    IN  IF ps.finished
        THEN [samples |-> Zeros(num_frames), ps |-> ps, data |-> data]
        ELSE IF remaining <= 0
        THEN [samples |-> Zeros(num_frames), ps |-> [ps EXCEPT !.finished = TRUE],
              data |-> data]
        ELSE [samples |->
                  ScaleBlock(SubSeq(data, ps.position + 1, ps.position + count),
                             ps.volume)
                  \o (IF count < num_frames THEN Zeros(num_frames - count) ELSE <<>>),
              ps |-> [ps EXCEPT !.position = ps.position + count,
                                !.finished = (count < num_frames)],
              data |-> scaled]

\* PlayingSound.get_samples on an instance ps whose clip holds `data`: the block
\* returned, the instance afterwards and the clip's data afterwards, which the
\* copy() of line 103 keeps from being scaled.  (clip.data is never None: a
\* SoundClip whose load raised does not exist.)
get_samples_of(ps, data, num_frames) ==
    LET remaining == Len(data) - ps.position
        count == Min(num_frames, remaining)
    IN  IF ps.finished
        THEN [samples |-> Zeros(num_frames), ps |-> ps, data |-> data]
        ELSE IF remaining <= 0
        THEN [samples |-> Zeros(num_frames), ps |-> [ps EXCEPT !.finished = TRUE],
              data |-> data]
        ELSE [samples |->
                  ScaleBlock(SubSeq(data, ps.position + 1, ps.position + count),
                             ps.volume)
                  \o (IF count < num_frames THEN Zeros(num_frames - count) ELSE <<>>),
              ps |-> [ps EXCEPT !.position = ps.position + count,
                                !.finished = (count < num_frames)],
              data |-> data]

get_samples(ps, num_frames) == get_samples_of(ps, ClipData(ps.clip), num_frames)

\* ------------------------------------------------------------------- mix tick
\* The loop of AudioEngine._mix_playing_sounds over the first k instances: the
\* accumulated block and the instances after their pulls.
RECURSIVE MixLoop(_, _, _)
MixLoop(list, k, num_frames) ==
    IF k = 0 THEN [mixed |-> Zeros(num_frames), list |-> list]
    ELSE LET before == MixLoop(list, k - 1, num_frames)
             got == get_samples(before.list[k], num_frames)
         IN  IF before.list[k].finished THEN before
             ELSE [mixed |-> AddBlocks(before.mixed, got.samples),
                   list |-> [before.list EXCEPT ![k] = got.ps]]

\* The instances of a list that are not finished, in order.
RECURSIVE Unfinished(_)
Unfinished(list) ==
    IF list = <<>> THEN <<>>
    ELSE (IF Head(list).finished THEN <<>> ELSE <<Head(list)>>)
         \o Unfinished(Tail(list))

\* A mix tick that forgets np.clip.
mix_without_clip(list, num_frames, volume) ==
    LET done == MixLoop(list, Len(list), num_frames)
    IN  [mixed |-> ScaleBlock(done.mixed, volume), playing |-> Unfinished(done.list)]

\* AudioEngine._mix_playing_sounds: the block returned and the live set afterwards.
mix_playing_sounds(list, num_frames, volume) ==
    LET done == MixLoop(list, Len(list), num_frames)
    IN  [mixed |-> ClipBlock(ScaleBlock(done.mixed, volume), ONE),
         playing |-> Unfinished(done.list)]

\* --------------------------------------------------------------- the engine
VARIABLES
    playing,                \* AudioEngine.playing: the live set, a list of instances
    cache,                  \* AudioEngine._cache: filepath -> SoundClip, NoClip = no entry
    master_volume,          \* AudioEngine.master_volume
    output_mode,            \* AudioEngine.output_mode
    virtual_cable_device,   \* AudioEngine.virtual_cable_device
    mic_passthrough,        \* AudioEngine.mic_passthrough
    effective_rate,         \* AudioEngine._effective_rate
    speaker_stream,         \* AudioEngine._speaker_stream: None, "inactive" or "active"
    cable_stream,           \* AudioEngine._cable_stream
    mic_stream,             \* AudioEngine._mic_stream
    cached_mix,             \* AudioEngine._cached_mix
    mic_ring,               \* AudioEngine._mic_ring
    mic_write_pos,          \* AudioEngine._mic_write_pos
    mic_read_pos,           \* AudioEngine._mic_read_pos
    outdata,                \* the outdata array the last step's output callback wrote; <<>>
                            \* when the last step was no output callback
    last_op,                \* the operation that ran last, with its argument
    answered,               \* what the devices answered to the last start() called on its own
    after_stop,             \* the blocks with sound written to each output since the live
                            \* set was emptied by a stop (counted where state # "off")
    status,                 \* what VyberApp._update_status last gave the main window
    pc,                     \* SpecThreads: where each thread is in its engine call
    opened,                 \* SpecThreads: the streams open in the sound system
    handle,                 \* SpecThreads: the stream each engine handle refers to, 0 = None
    relayed,                \* the microphone blocks written so far, the one the cable
                            \* output was given last, and the blocks it missed before it
    lock,                   \* AudioEngine.lock: the thread that holds it, None when free
    local,                  \* the local variables of each thread inside an engine call
    solo,                   \* SpecPull: one PlayingSound and the data of its clip
    pulled,                 \* SpecPull: its last get_samples: num_frames and the block returned
    decoded                 \* SpecDecode: a file read, the target rate, the SoundClip.data

audioVars == <<playing, cache, master_volume, cached_mix, outdata>>
sessionVars == <<output_mode, virtual_cable_device, mic_passthrough, effective_rate,
                 speaker_stream, cable_stream, mic_stream>>
micVars == <<mic_ring, mic_write_pos, mic_read_pos>>
unitVars == <<solo, pulled, decoded>>
threadVars == <<pc, opened, handle>>
lockVars == <<lock, local>>
vars == <<audioVars, sessionVars, micVars, last_op, answered, after_stop, status,
          threadVars, relayed, lockVars, unitVars>>

Modes == {"speakers", "mic", "both"}
mic_ring_size == BLOCK_SIZE * 8

\* AudioEngine.__init__
InitEngine ==
    /\ playing = <<>>
    /\ cache = [f \in Paths |-> NoClip]
    /\ master_volume = 8
    /\ output_mode = "both"
    /\ virtual_cable_device = None
    /\ mic_passthrough = TRUE
    /\ effective_rate = SAMPLE_RATE
    /\ speaker_stream = None
    /\ cable_stream = None
    /\ mic_stream = None
    /\ cached_mix = Zeros(BLOCK_SIZE)
    /\ mic_ring = Zeros(mic_ring_size)
    /\ mic_write_pos = 0
    /\ mic_read_pos = 0
    /\ outdata = <<>>
    /\ last_op = [op |-> "__init__", arg |-> None]

\* No instance pulled on its own, no file decoded on its own.
NoSolo == [data |-> <<>>, ps |-> PlayingSound(NoClip, VOL)]
NoDecode == [data |-> <<>>, file |-> [data |-> <<>>, ch |-> CHANNELS, sr |-> SAMPLE_RATE],
             done |-> FALSE, target |-> SAMPLE_RATE]

NoPull == [num_frames |-> 0, samples |-> <<>>]

\* A start() that was not called: no device was asked anything.
NoAnswer == [native |-> 0, speaker |-> None, cable |-> None, mic |-> None]

\* The threads that call the engine: the UI thread, and the thread
\* HotkeyManager._safe_call starts for a hotkey callback.
Threads == {"ui", "hotkey"}
Roles == {"speaker", "cable", "mic"}
Idle == [at |-> "idle", ret |-> "idle"]
\* The threads that run engine code: those, and the thread on which the speaker
\* stream calls back.
Callers == Threads \cup {"speaker"}
\* A thread outside the engine has no locals.
NoLocal == [filepath |-> "", clip |-> NoClip, volume |-> 0, mixed |-> <<>>]

\* Nothing counted yet (or nothing to be counted: state "off"), no thread
\* inside the engine, no stream object tracked.
InitAuxWith(counting) ==
    /\ answered = NoAnswer
    /\ after_stop = [speaker |-> 0, cable |-> 0, state |-> counting]
    /\ status = [remaining |-> <<>>, count |-> 0]
    /\ pc = [t \in Callers |-> Idle]
    /\ opened = {}
    /\ handle = [r \in Roles |-> 0]
    /\ relayed = [written |-> 0, heard |-> 0, missed |-> 0]
    /\ lock = None
    /\ local = [t \in Callers |-> NoLocal]

InitAux == InitAuxWith("off")

Init == InitEngine /\ InitAux /\ solo = NoSolo /\ pulled = NoPull /\ decoded = NoDecode

\* The fields start() and play_sound() read and write, as one record.
Engine ==
    [playing |-> playing, cache |-> cache, output_mode |-> output_mode,
     virtual_cable_device |-> virtual_cable_device, mic_passthrough |-> mic_passthrough,
     effective_rate |-> effective_rate, speaker_stream |-> speaker_stream,
     cable_stream |-> cable_stream, mic_stream |-> mic_stream]

\* The engine's fields become those of the record e.
Becomes(e) ==
    /\ playing' = e.playing
    /\ cache' = e.cache
    /\ output_mode' = e.output_mode
    /\ virtual_cable_device' = e.virtual_cable_device
    /\ mic_passthrough' = e.mic_passthrough
    /\ effective_rate' = e.effective_rate
    /\ speaker_stream' = e.speaker_stream
    /\ cable_stream' = e.cable_stream
    /\ mic_stream' = e.mic_stream

\* ------------------------------------------------------------ device session
\* What the sound devices answer during one start(): the virtual cable's
\* default_samplerate (0: none, or the query raised), and for each role how
\* opening its stream ends: "active", "inactive" (the stream object was made and
\* assigned, its start() raised) or None (making it raised).
Outcomes == {"active", "inactive", None}
\* The answers that matter to a start() of engine e: a role that start() will not
\* open has the one outcome None, and without a cable no rate is asked for.
Answers(e, natives, outcomes) ==
    [native : IF e.virtual_cable_device = None THEN {0} ELSE natives,
     speaker : IF e.output_mode \in {"speakers", "both"} THEN outcomes ELSE {None},
     cable : IF e.output_mode \in {"mic", "both"} /\ e.virtual_cable_device # None
             THEN outcomes ELSE {None},
     mic : IF e.mic_passthrough /\ e.virtual_cable_device # None
           THEN outcomes ELSE {None}]

\* A start() that calls stop() where it should call _stop_streams().
stop_streams_and_clear(e) ==
    [e EXCEPT !.speaker_stream = None, !.cable_stream = None, !.mic_stream = None,
              !.playing = <<>>]

\* AudioEngine._stop_streams
stop_streams(e) ==
    [e EXCEPT !.speaker_stream = None, !.cable_stream = None, !.mic_stream = None]

\* AudioEngine._detect_effective_rate
detect_effective_rate(e, native) ==
    IF e.virtual_cable_device = None THEN SAMPLE_RATE
    ELSE IF native > 0 THEN native
    ELSE SAMPLE_RATE

\* A start() that keeps the cache when the rate changed.
adapt_rate_keeping_cache(e, native) ==
    [e EXCEPT !.effective_rate = detect_effective_rate(e, native)]

\* AudioEngine.start, its adaptation to the cable's rate: the rate is detected
\* again, and the cache is cleared when it changed.
adapt_rate(e, native) ==
    LET old_rate == e.effective_rate
        rate == detect_effective_rate(e, native)
    IN  [e EXCEPT !.effective_rate = rate,
                  !.cache = IF rate # old_rate THEN [f \in Paths |-> NoClip]
                            ELSE e.cache]

\* AudioEngine.start, its three try blocks: the roles it opens, and the handle
\* each block leaves (an exception leaves the handle as it was).
opens_speaker(e) == e.output_mode \in {"speakers", "both"}
opens_cable(e) == e.output_mode \in {"mic", "both"} /\ e.virtual_cable_device # None
opens_mic(e) == e.mic_passthrough /\ e.virtual_cable_device # None
open_speaker(e, outcome) ==
    IF opens_speaker(e) /\ outcome # None THEN [e EXCEPT !.speaker_stream = outcome] ELSE e
open_cable(e, outcome) ==
    IF opens_cable(e) /\ outcome # None THEN [e EXCEPT !.cable_stream = outcome] ELSE e
open_mic(e, outcome) ==
    IF opens_mic(e) /\ outcome # None THEN [e EXCEPT !.mic_stream = outcome] ELSE e

\* A start() with one try block around the three openings: the first failure
\* ends it.
start_aborting(e, ans) ==
    LET detected == adapt_rate(stop_streams(e), ans.native)
        speaker == open_speaker(detected, ans.speaker)
        cable == open_cable(speaker, ans.cable)
    IN  IF opens_speaker(detected) /\ ans.speaker # "active" THEN speaker
        ELSE IF opens_cable(detected) /\ ans.cable # "active" THEN cable
        ELSE open_mic(cable, ans.mic)

\* AudioEngine.start
start(e, ans) ==
    LET detected == adapt_rate(stop_streams(e), ans.native)
    IN  open_mic(open_cable(open_speaker(detected, ans.speaker), ans.cable), ans.mic)

\* AudioEngine._needs_speaker, AudioEngine._needs_cable
needs_speaker(e) == e.output_mode \in {"speakers", "both"}
needs_cable(e) == e.output_mode \in {"mic", "both"}

\* ------------------------------------------------------------- engine facade
\* A load_sound whose decode never raises: every path yields a clip.
load_sound_never_failing(e, filepath) ==
    IF e.cache[filepath] # NoClip
    THEN [clip |-> e.cache[filepath], cache |-> e.cache]
    ELSE [clip |-> SoundClip(filepath, e.effective_rate),
          cache |-> [e.cache EXCEPT ![filepath] = SoundClip(filepath, e.effective_rate)]]

\* AudioEngine.load_sound: the clip returned (None when the decode raised) and
\* the cache afterwards.
load_sound(e, filepath) ==
    IF e.cache[filepath] # NoClip
    THEN [clip |-> e.cache[filepath], cache |-> e.cache]
    ELSE IF filepath \in Decodable
    THEN [clip |-> SoundClip(filepath, e.effective_rate),
          cache |-> [e.cache EXCEPT ![filepath] = SoundClip(filepath, e.effective_rate)]]
    ELSE [clip |-> NoClip, cache |-> e.cache]

\* A play_sound that restarts the instance already playing the path instead of
\* adding one.
play_restarting(e, filepath, volume) ==
    LET loaded == load_sound(e, filepath)
        others == SelectSeq(e.playing, LAMBDA p : p.clip.filepath # filepath)
    IN  IF loaded.clip = NoClip THEN e
        ELSE [e EXCEPT !.cache = loaded.cache,
                       !.playing = Append(others, PlayingSound(loaded.clip, volume))]

\* AudioEngine.play_sound up to the end of its critical section.
play_append(e, filepath, volume) ==
    LET loaded == load_sound(e, filepath)
    IN  IF loaded.clip = NoClip THEN e
        ELSE [e EXCEPT !.cache = loaded.cache,
                       !.playing = Append(e.playing, PlayingSound(loaded.clip, volume))]

\* AudioEngine.get_playing_count, AudioEngine.get_playing_filepaths
get_playing_count == Cardinality({i \in 1..Len(playing) : ~playing[i].finished})
get_playing_filepaths ==
    {playing[i].clip.filepath : i \in {j \in 1..Len(playing) : ~playing[j].finished}}

\* AudioEngine.get_playing_remaining, as the specification describes it: for each
\* path with a live instance, the time left, (frame_count - cursor) /
\* effective_rate seconds, kept as the frames left and the rate that divides
\* them; of several instances of a path, the one with the most left.
frames_left(p) == Len(ClipData(p.clip)) - p.position
get_playing_remaining ==
    [f \in get_playing_filepaths |->
        LET live == {i \in 1..Len(playing) :
                        ~playing[i].finished /\ playing[i].clip.filepath = f}
            longest == CHOOSE i \in live :
                           \A j \in live : frames_left(playing[j]) <= frames_left(playing[i])
        IN  [rate |-> effective_rate, frames |-> frames_left(playing[longest])]]

\* A play_sound that calls start() without looking at the streams.
play_sound_always_starting(e, filepath, volume, ans1, ans2) ==
    IF load_sound(e, filepath).clip = NoClip THEN e
    ELSE start(play_append(e, filepath, volume), ans1)

\* AudioEngine.play_sound: ans1 and ans2 are the devices' answers to the first
\* and to the second start() it may call.
play_sound(e, filepath, volume, ans1, ans2) ==
    LET appended == play_append(e, filepath, volume)
        first == IF needs_speaker(appended) /\ appended.speaker_stream # "active"
                 THEN start(appended, ans1) ELSE appended
        second == IF needs_cable(first) /\ first.cable_stream # "active"
                  THEN start(first, ans2) ELSE first
    IN  IF load_sound(e, filepath).clip = NoClip THEN e ELSE second

\* The answers play_sound may get: one per start() it calls, NoAnswer for a
\* start() it does not call.
FirstAnswers(e, filepath, volume, natives, outcomes) ==
    LET appended == play_append(e, filepath, volume)
    IN  IF load_sound(e, filepath).clip # NoClip
           /\ needs_speaker(appended) /\ appended.speaker_stream # "active"
        THEN Answers(appended, natives, outcomes) ELSE {NoAnswer}
SecondAnswers(e, filepath, volume, ans1, natives, outcomes) ==
    LET appended == play_append(e, filepath, volume)
        first == IF ans1 # NoAnswer THEN start(appended, ans1) ELSE appended
    IN  IF load_sound(e, filepath).clip # NoClip
           /\ needs_cable(first) /\ first.cable_stream # "active"
        THEN Answers(first, natives, outcomes) ELSE {NoAnswer}

\* A stop_sound that removes only the first instance of the path (list.remove).
RECURSIVE stop_first_only(_, _)
stop_first_only(list, filepath) ==
    IF list = <<>> THEN <<>>
    ELSE IF ~Head(list).finished /\ Head(list).clip.filepath = filepath THEN Tail(list)
    ELSE <<Head(list)>> \o stop_first_only(Tail(list), filepath)

\* AudioEngine.stop_sound
stop_sound(list, filepath) ==
    SelectSeq(list, LAMBDA p : p.finished \/ p.clip.filepath # filepath)

\* A set_master_volume that bounds the volume from above only.
clamp_volume_above(volume) == Min(VOL, volume)

\* AudioEngine.set_master_volume: max(0.0, min(1.0, volume))
clamp_volume(volume) == Max(0, Min(VOL, volume))

\* AudioEngine.invalidate_cache: `if filepath:` is false for None and for "".
invalidate_cache(c, filepath) ==
    IF filepath # None /\ filepath # ""
    THEN [f \in Paths |-> IF f = filepath THEN NoClip ELSE c[f]]
    ELSE [f \in Paths |-> NoClip]

\* A reader that copies a whole block whatever is available.
mic_read_ignoring_available(ring_data, rp0, wp, frames) ==
    LET ring == mic_ring_size
        lapped == ((wp - rp0) % ring) > (ring \div 2)
        rp == IF lapped THEN (wp - frames) % ring ELSE rp0
        n == frames
    IN  [mic_data |-> [i \in 1..frames |-> ring_data[((rp + i - 1) % ring) + 1]],
         read_pos |-> (rp + n) % ring,
         rp |-> rp, n |-> n]

\* A reader that never skips forward.
mic_read_without_skip(ring_data, rp0, wp, frames) ==
    LET ring == mic_ring_size
        rp == rp0
        available == (wp - rp0) % ring
        n == Min(frames, available)
    IN  [mic_data |-> [i \in 1..frames |->
                          IF i <= n THEN ring_data[((rp + i - 1) % ring) + 1]
                          ELSE ZeroFrame],
         read_pos |-> IF n > 0 THEN (rp + n) % ring ELSE rp0,
         rp |-> rp, n |-> n]

\* A reader that leaves its cursor where it was.
mic_read_not_advancing(ring_data, rp0, wp, frames) ==
    LET ring == mic_ring_size
        lapped == ((wp - rp0) % ring) > (ring \div 2)
        rp == IF lapped THEN (wp - frames) % ring ELSE rp0
        available == IF lapped THEN frames ELSE (wp - rp0) % ring
        n == Min(frames, available)
    IN  [mic_data |-> [i \in 1..frames |->
                          IF i <= n THEN ring_data[((rp + i - 1) % ring) + 1]
                          ELSE ZeroFrame],
         read_pos |-> rp0,
         rp |-> rp, n |-> n]

\* The microphone part of AudioEngine._cable_callback: the frames taken from the
\* ring and the read position afterwards.
mic_read(ring_data, rp0, wp, frames) ==
    LET ring == mic_ring_size
        lapped == ((wp - rp0) % ring) > (ring \div 2)
        rp == IF lapped THEN (wp - frames) % ring ELSE rp0
        available == IF lapped THEN frames ELSE (wp - rp0) % ring
        n == Min(frames, available)
    IN  [mic_data |-> [i \in 1..frames |->
                          IF i <= n THEN ring_data[((rp + i - 1) % ring) + 1]
                          ELSE ZeroFrame],
         read_pos |-> IF n > 0 THEN (rp + n) % ring ELSE rp0,
         rp |-> rp, n |-> n]

\* AudioEngine._mic_callback: the ring after `processed` was written at wp.
mic_write(ring_data, wp, processed) ==
    LET ring == mic_ring_size
        n == Len(processed)
        at(k) == ((k - 1 - wp) % ring) + 1
    IN  [k \in 1..ring |-> IF at(k) <= n THEN processed[at(k)] ELSE ring_data[k]]

\* The fold to stereo of AudioEngine._mic_callback.
mic_fold(indata, channels, frames) ==
    IF channels < CHANNELS
    THEN [i \in 1..frames |-> [c \in 1..CHANNELS |-> indata[i][1]]]
    ELSE [i \in 1..frames |-> [c \in 1..CHANNELS |-> indata[i][c]]]

\* ------------------------------------------------------------------- actions
\* The count of the blocks with sound written since a stop emptied the live
\* set: a stop that removes every instance, all of them heard before, starts
\* it; play_sound ends it; a callback that writes a block with sound adds one.
counted(op, data) ==
    IF after_stop.state = "off" THEN after_stop
    ELSE IF op \in {"stop_all", "stop_sound"}
    THEN IF playing # <<>> /\ playing' = <<>>
            /\ \A i \in 1..Len(playing) : playing[i].position > 0
         THEN [speaker |-> 0, cable |-> 0, state |-> "stopped"]
         ELSE [speaker |-> 0, cable |-> 0, state |-> "playing"]
    ELSE IF op = "play_sound" THEN [speaker |-> 0, cable |-> 0, state |-> "playing"]
    ELSE IF after_stop.state = "stopped" /\ ~IsSilent(data)
    THEN IF op = "speaker_callback"
         THEN [after_stop EXCEPT !.speaker = Min(@ + 1, 2)]
         ELSE IF op = "cable_callback"
         THEN [after_stop EXCEPT !.cable = Min(@ + 1, 2)]
         ELSE after_stop
    ELSE after_stop

\* The microphone blocks so far: the microphone callback writes one more, and
\* a cable callback that takes frames from the ring gives the output the block
\* its first frame belongs to (a microphone block holds its number in every
\* sample), having missed the blocks between that one and the one before.
told(op) ==
    IF op = "mic_callback" THEN [relayed EXCEPT !.written = @ + 1]
    ELSE IF op = "cable_callback" /\ mic_passthrough
    THEN LET mic == mic_read(mic_ring, mic_read_pos, mic_write_pos, BLOCK_SIZE)
         IN  IF mic.n > 0 /\ ~IsSilent(mic.mic_data)
             THEN [relayed EXCEPT !.heard = mic.mic_data[1][1],
                                  !.missed = mic.mic_data[1][1] - relayed.heard - 1]
             ELSE relayed
    ELSE relayed

\* An operation ran and left `data` in an outdata array (<<>>: it has none).
Logged(op, arg, data) ==
    /\ last_op' = [op |-> op, arg |-> arg]
    /\ outdata' = data
    /\ after_stop' = counted(op, data)
    /\ relayed' = told(op)
    /\ UNCHANGED unitVars

\* An operation of the facade or of the application ran: it wrote no block.
Did(op, arg) ==
    Logged(op, arg, <<>>) /\ UNCHANGED <<answered, status, threadVars, lockVars>>
\* A stream callback ran and left `data` in its outdata array.
Wrote(op, data) ==
    Logged(op, None, data) /\ UNCHANGED <<answered, status, threadVars, lockVars>>

\* VyberApp._configure_audio: the configured mode and passthrough flag, and the
\* cable's device when one is installed.
ConfigureAudio(installed, mode, passthrough) ==
    /\ Becomes([Engine EXCEPT
                   !.output_mode = mode,
                   !.mic_passthrough = passthrough,
                   !.virtual_cable_device =
                       IF installed THEN "CABLE Input" ELSE Engine.virtual_cable_device])
    /\ Did("configure_audio", mode)
    /\ UNCHANGED <<master_volume, cached_mix, micVars>>

\* VyberApp._on_refresh_audio: _configure_audio (the cable found or not, the
\* configured mode and passthrough flag) and then start().
RefreshAudio(installed, mode, passthrough, natives, outcomes) ==
    LET configured == [Engine EXCEPT
                          !.output_mode = mode,
                          !.mic_passthrough = passthrough,
                          !.virtual_cable_device =
                              IF installed THEN "CABLE Input"
                              ELSE Engine.virtual_cable_device]
    IN  /\ \E ans \in Answers(configured, natives, outcomes) :
               Becomes(start(configured, ans))
        /\ Did("refresh_audio", mode)
        /\ UNCHANGED <<master_volume, cached_mix, micVars>>

\* AudioEngine.start
Start(natives, outcomes) ==
    /\ \E ans \in Answers(Engine, natives, outcomes) :
           Becomes(start(Engine, ans)) /\ answered' = ans
    /\ Logged("start", None, <<>>)
    /\ UNCHANGED <<master_volume, cached_mix, micVars, status, threadVars, lockVars>>

\* A stop() that rewinds the ring's cursors.
StopRewinding ==
    /\ Becomes([stop_streams(Engine) EXCEPT !.playing = <<>>])
    /\ Did("stop", None)
    /\ mic_write_pos' = 0
    /\ mic_read_pos' = 0
    /\ UNCHANGED <<master_volume, cached_mix, mic_ring>>

\* AudioEngine.stop
Stop ==
    /\ Becomes([stop_streams(Engine) EXCEPT !.playing = <<>>])
    /\ Did("stop", None)
    /\ UNCHANGED <<master_volume, cached_mix, micVars>>

\* AudioEngine.play_sound
PlaySound(filepath, volume, natives, outcomes) ==
    /\ filepath \in Decodable => Len(playing) < MaxPlaying
    /\ \E ans1 \in FirstAnswers(Engine, filepath, volume, natives, outcomes) :
       \E ans2 \in SecondAnswers(Engine, filepath, volume, ans1, natives, outcomes) :
           Becomes(play_sound(Engine, filepath, volume, ans1, ans2))
    /\ Did("play_sound", filepath)
    /\ UNCHANGED <<master_volume, cached_mix, micVars>>

\* AudioEngine.stop_all
StopAll ==
    /\ playing' = <<>>
    /\ Did("stop_all", None)
    /\ UNCHANGED <<cache, master_volume, cached_mix, sessionVars, micVars>>

\* AudioEngine.stop_sound
StopSound(filepath) ==
    /\ playing' = stop_sound(playing, filepath)
    /\ Did("stop_sound", filepath)
    /\ UNCHANGED <<cache, master_volume, cached_mix, sessionVars, micVars>>

\* AudioEngine.set_output_mode
SetOutputMode(mode, natives, outcomes) ==
    /\ IF mode \notin Modes THEN Becomes(Engine)
       ELSE LET changed == [Engine EXCEPT !.output_mode = mode]
            IN  \E ans \in Answers(changed, natives, outcomes) :
                    Becomes(start(changed, ans))
    /\ Did("set_output_mode", mode)
    /\ UNCHANGED <<master_volume, cached_mix, micVars>>

\* AudioEngine.set_master_volume
SetMasterVolume(volume) ==
    /\ master_volume' = clamp_volume(volume)
    /\ Did("set_master_volume", ToString(volume))
    /\ UNCHANGED <<playing, cache, cached_mix, sessionVars, micVars>>

\* AudioEngine.invalidate_cache
InvalidateCache(filepath) ==
    /\ cache' = invalidate_cache(cache, filepath)
    /\ Did("invalidate_cache", filepath)
    /\ UNCHANGED <<playing, master_volume, cached_mix, sessionVars, micVars>>

\* A status update that gives the main window the count alone.
UpdateStatusCountOnly ==
    /\ status' = [remaining |-> <<>>, count |-> get_playing_count]
    /\ Logged("update_status", None, <<>>)
    /\ UNCHANGED <<playing, cache, master_volume, cached_mix, sessionVars, micVars,
                   answered, threadVars, lockVars>>

\* VyberApp._update_status: the count and the remaining times of the engine
\* go to the main window.
UpdateStatus ==
    /\ status' = [remaining |-> get_playing_remaining, count |-> get_playing_count]
    /\ Logged("update_status", None, <<>>)
    /\ UNCHANGED <<playing, cache, master_volume, cached_mix, sessionVars, micVars,
                   answered, threadVars, lockVars>>

\* AudioEngine._speaker_callback, called by the running speaker stream.
SpeakerCallback ==
    /\ speaker_stream = "active"
    /\ LET tick == mix_playing_sounds(playing, BLOCK_SIZE, master_volume)
       IN  /\ playing' = tick.playing
           /\ Wrote("speaker_callback", tick.mixed)
           /\ cached_mix' = IF output_mode = "both" THEN tick.mixed ELSE cached_mix
    /\ UNCHANGED <<cache, master_volume, sessionVars, micVars>>

\* AudioEngine._cable_callback, called by the running cable stream.
CableCallback ==
    /\ cable_stream = "active"
    /\ LET frames == BLOCK_SIZE
           tick == IF output_mode = "both"
                   THEN [mixed |-> SubSeq(cached_mix, 1, frames), playing |-> playing]
                   ELSE mix_playing_sounds(playing, frames, master_volume)
           mic == IF mic_passthrough
                  THEN mic_read(mic_ring, mic_read_pos, mic_write_pos, frames)
                  ELSE [mic_data |-> Zeros(frames), read_pos |-> mic_read_pos]
       IN  /\ playing' = tick.playing
           /\ mic_read_pos' = mic.read_pos
           /\ Wrote("cable_callback",
                    ClipBlock(AddBlocks(tick.mixed, mic.mic_data), ONE))
    /\ UNCHANGED <<cache, master_volume, cached_mix, sessionVars, mic_ring, mic_write_pos>>

\* How many blocks the microphone delivers before it is no longer explored:
\* in SpecRing enough for the writer to go round the ring twice and half again,
\* in SpecRelay enough for it to go round once.
MaxMicBlocks == 20
MaxRelayBlocks == 9
\* The indata of the k-th microphone block: its number in every sample.
MicBlock(k, channels) == [i \in 1..BLOCK_SIZE |-> [c \in 1..channels |-> k]]

\* AudioEngine._mic_callback, called by the running microphone stream with a
\* block of `channels` channels.
MicCallback(indata, channels) ==
    /\ mic_stream = "active"
    /\ mic_ring' = mic_write(mic_ring, mic_write_pos, mic_fold(indata, channels, BLOCK_SIZE))
    /\ mic_write_pos' = (mic_write_pos + BLOCK_SIZE) % mic_ring_size
    /\ Did("mic_callback", None)
    /\ UNCHANGED <<playing, cache, master_volume, cached_mix, sessionVars, mic_read_pos>>

\* ------------------------------------------------ engine calls, step by step
\* The calls that reach start(), cut where another thread can run in between:
\* set_output_mode after its assignment, play_sound after its critical section
\* and between its two tests, start() after _stop_streams, after the rate
\* adaptation and after each try block.  pc[t].at is the piece thread t runs
\* next, pc[t].ret the piece that follows the start() it is in.
MaxOrphans == 1
MaxThreadPlaying == 1

\* The streams the engine's handles refer to, and the streams open without a
\* handle that refers to them.
Referenced == {s \in opened : handle[s.role] = s.id}
Orphans == opened \ Referenced
NewStream == CHOOSE n \in 1..(Cardinality(opened) + 1) : \A s \in opened : s.id # n

\* Thread t runs the piece `label` of its call: the engine becomes e, and the
\* thread goes on to the piece `next`, returning from a start() to `ret`.
Step(t, label, next, ret, e) ==
    /\ Becomes(e)
    /\ pc' = [pc EXCEPT ![t] = [at |-> next, ret |-> ret]]
    /\ Logged(label, t, <<>>)
    /\ UNCHANGED <<master_volume, cached_mix, micVars, answered, status, lockVars>>

\* A call begins only while the streams left without a handle are few.
Enters(t) == pc[t].at = "idle" /\ Cardinality(Orphans) < MaxOrphans

\* AudioEngine.set_output_mode up to its call of start().
T_SetOutputMode(t, mode) ==
    /\ Enters(t)
    /\ IF mode \in Modes
       THEN Step(t, "set_output_mode", "stop_streams", "idle",
                 [Engine EXCEPT !.output_mode = mode])
       ELSE Step(t, "set_output_mode", "idle", "idle", Engine)
    /\ UNCHANGED <<opened, handle>>

\* AudioEngine.start called by the application (run, settings, refresh).
T_Start(t) ==
    /\ Enters(t)
    /\ Step(t, "start", "stop_streams", "idle", Engine)
    /\ UNCHANGED <<opened, handle>>

\* AudioEngine.play_sound up to the end of its critical section.
T_PlaySound(t, filepath, volume) ==
    /\ Enters(t)
    /\ Len(playing) < MaxThreadPlaying
    /\ IF load_sound(Engine, filepath).clip = NoClip
       THEN Step(t, "play_sound", "idle", "idle", Engine)
       ELSE Step(t, "play_sound", "check_speaker", "idle",
                 play_append(Engine, filepath, volume))
    /\ UNCHANGED <<opened, handle>>

\* AudioEngine.play_sound, its first test: start() when the speaker is needed
\* and its stream is absent or inactive.
T_CheckSpeaker(t) ==
    /\ pc[t].at = "check_speaker"
    /\ IF needs_speaker(Engine) /\ speaker_stream # "active"
       THEN Step(t, "check_speaker", "stop_streams", "check_cable", Engine)
       ELSE Step(t, "check_speaker", "check_cable", "idle", Engine)
    /\ UNCHANGED <<opened, handle>>

\* AudioEngine.play_sound, its second test.
T_CheckCable(t) ==
    /\ pc[t].at = "check_cable"
    /\ IF needs_cable(Engine) /\ cable_stream # "active"
       THEN Step(t, "check_cable", "stop_streams", "idle", Engine)
       ELSE Step(t, "check_cable", "idle", "idle", Engine)
    /\ UNCHANGED <<opened, handle>>

\* AudioEngine._stop_streams: the streams the handles refer to are stopped and
\* closed, the handles set to None.  stream.stop() returns when the stream's
\* callback is not running.
T_StopStreams(t) ==
    /\ pc[t].at = "stop_streams"
    /\ pc["speaker"] = Idle
    /\ opened' = Orphans
    /\ handle' = [r \in Roles |-> 0]
    /\ Step(t, "stop_streams", "detect", pc[t].ret, stop_streams(Engine))

\* AudioEngine.start, its adaptation to the cable's rate.
T_Detect(t, native) ==
    /\ pc[t].at = "detect"
    /\ Step(t, "detect", "open_speaker", pc[t].ret, adapt_rate(Engine, native))
    /\ UNCHANGED <<opened, handle>>

\* One try block of AudioEngine.start: when the role is one this start() opens
\* and the device does not fail, a new stream is open and the role's handle
\* refers to it, whatever it referred to before.
T_Open(t, role, opens, outcome, label, next, e) ==
    /\ pc[t].at = label
    /\ IF opens /\ outcome # None
       THEN /\ opened' = opened \cup {[role |-> role, id |-> NewStream]}
            /\ handle' = [handle EXCEPT ![role] = NewStream]
       ELSE UNCHANGED <<opened, handle>>
    /\ Step(t, label, IF next = "return" THEN pc[t].ret ELSE next,
            IF next = "return" THEN "idle" ELSE pc[t].ret, e)

T_OpenSpeaker(t, outcome) ==
    T_Open(t, "speaker", opens_speaker(Engine), outcome, "open_speaker", "open_cable",
           open_speaker(Engine, outcome))
T_OpenCable(t, outcome) ==
    T_Open(t, "cable", opens_cable(Engine), outcome, "open_cable", "open_mic",
           open_cable(Engine, outcome))
T_OpenMic(t, outcome) ==
    T_Open(t, "mic", opens_mic(Engine), outcome, "open_mic", "return",
           open_mic(Engine, outcome))

\* AudioEngine.stop
T_Stop(t) ==
    /\ pc[t].at = "idle"
    /\ pc["speaker"] = Idle
    /\ opened' = Orphans
    /\ handle' = [r \in Roles |-> 0]
    /\ Step(t, "stop", "idle", "idle", [stop_streams(Engine) EXCEPT !.playing = <<>>])

\* ------------------------------------------------- the engine lock, step by step
\* The calls that use self.lock, cut at the acquisition and at the release of
\* the lock, play_sound also between the decoding of the clip and its entry
\* into the cache, and the mix tick between its loop and its clean-up.  A
\* thread whose pc is at one of the Locked pieces waits for the lock until it
\* holds it, and then runs the piece.
Locked == {"append", "clear", "remove", "filepaths", "count", "tick", "compact"}

\* Thread t runs the piece `label`: the engine becomes e, the lock is held by
\* `holder` afterwards, and the thread's locals are `mine`.
Piece(t, label, next, ret, e, holder, mine) ==
    /\ Becomes(e)
    /\ pc' = [pc EXCEPT ![t] = [at |-> next, ret |-> ret]]
    /\ lock' = holder
    /\ local' = [local EXCEPT ![t] = mine]
    /\ Logged(label, t, <<>>)
    /\ UNCHANGED <<master_volume, cached_mix, micVars, answered, status, opened, handle>>

\* Thread t is inside `with self.lock`, about to run the piece `label`.
Holds(t, label) == pc[t].at = label /\ lock = t

\* `with self.lock:` entered: the thread waits until the lock is free.
T_Acquire(t) ==
    /\ pc[t].at \in Locked
    /\ lock = None
    /\ Piece(t, "acquire", pc[t].at, pc[t].ret, Engine, t, local[t])

\* `with self.lock:` left.  The locals are dropped where the call has no
\* further use for them.
T_Release(t) ==
    /\ Holds(t, "release")
    /\ Piece(t, "release", pc[t].ret, "idle", Engine, None,
             IF pc[t].ret \in {"idle", "check_speaker"} THEN NoLocal ELSE local[t])

\* The hotkey callback of VyberApp._register_hotkeys: play_sound(fp, v).
T_HotkeyPlay(t, filepath, volume) ==
    /\ Enters(t)
    /\ Len(playing) < MaxThreadPlaying
    /\ Piece(t, "play_sound", "load_sound", "idle", Engine, lock,
             [NoLocal EXCEPT !.filepath = filepath, !.volume = volume])

\* VyberApp._on_play with the overlap preference "stop": the sound is stopped
\* when it is among get_playing_filepaths(), played otherwise.
T_OnPlay(t, filepath, volume) ==
    /\ Enters(t)
    /\ Len(playing) < MaxThreadPlaying
    /\ Piece(t, "on_play", "filepaths", "idle", Engine, lock,
             [NoLocal EXCEPT !.filepath = filepath, !.volume = volume])

\* AudioEngine.get_playing_filepaths inside VyberApp._on_play.
T_Filepaths(t) ==
    /\ Holds(t, "filepaths")
    /\ Piece(t, "filepaths", "release",
             IF local[t].filepath \in get_playing_filepaths THEN "remove" ELSE "load_sound",
             Engine, lock, local[t])

\* AudioEngine.stop_sound, its critical section.
T_Remove(t) ==
    /\ Holds(t, "remove")
    /\ Piece(t, "remove", "release", "idle",
             [Engine EXCEPT !.playing = stop_sound(playing, local[t].filepath)],
             lock, local[t])

\* AudioEngine.load_sound up to the decoding of the clip: a cached clip is
\* returned, a clip not cached is decoded for the rate read now, a decode that
\* raises ends play_sound.
T_LoadSound(t) ==
    /\ pc[t].at = "load_sound"
    /\ LET loaded == load_sound(Engine, local[t].filepath)
           mine == [local[t] EXCEPT !.clip = loaded.clip]
       IN  IF loaded.clip = NoClip
           THEN Piece(t, "load_sound", "idle", "idle", Engine, lock, NoLocal)
           ELSE IF cache[local[t].filepath] # NoClip
           THEN Piece(t, "load_sound", "append", "idle", Engine, lock, mine)
           ELSE Piece(t, "load_sound", "store_clip", "idle", Engine, lock, mine)

\* AudioEngine.load_sound, line 260: the decoded clip goes into the cache.
T_StoreClip(t) ==
    /\ pc[t].at = "store_clip"
    /\ Piece(t, "store_clip", "append", "idle",
             [Engine EXCEPT !.cache = [cache EXCEPT ![local[t].clip.filepath] = local[t].clip]],
             lock, local[t])

\* AudioEngine.play_sound, its critical section.
T_Append(t) ==
    /\ Holds(t, "append")
    /\ Piece(t, "append", "release", "check_speaker",
             [Engine EXCEPT !.playing =
                  Append(playing, PlayingSound(local[t].clip, local[t].volume))],
             lock, local[t])

\* AudioEngine.stop_all, called by VyberApp._on_stop_all.
T_StopAll(t) ==
    /\ Enters(t)
    /\ Piece(t, "stop_all", "clear", "idle", Engine, lock, NoLocal)

\* AudioEngine.stop up to its critical section: _stop_streams.
T_StopEngine(t) ==
    /\ Enters(t)
    /\ pc["speaker"] = Idle
    /\ opened' = Orphans
    /\ handle' = [r \in Roles |-> 0]
    /\ Step(t, "stop", "clear", "idle", stop_streams(Engine))

\* A critical section of stop_all that does not take the lock.
T_ClearUnlocked(t) ==
    /\ pc[t].at = "clear"
    /\ Piece(t, "clear", "idle", "idle", [Engine EXCEPT !.playing = <<>>], lock, local[t])

\* AudioEngine.stop_all and AudioEngine.stop, their critical section.
T_Clear(t) ==
    /\ Holds(t, "clear")
    /\ Piece(t, "clear", "release", "idle", [Engine EXCEPT !.playing = <<>>], lock, local[t])

\* AudioEngine.get_playing_count, called by VyberApp._update_status.
T_GetPlayingCount(t) ==
    /\ Enters(t)
    /\ Piece(t, "get_playing_count", "count", "idle", Engine, lock, NoLocal)

\* AudioEngine.get_playing_count, its critical section: the count goes to the
\* main window.
T_Count(t) ==
    /\ Holds(t, "count")
    /\ pc' = [pc EXCEPT ![t] = [at |-> "release", ret |-> "idle"]]
    /\ status' = [status EXCEPT !.count = get_playing_count]
    /\ Logged("count", t, <<>>)
    /\ UNCHANGED <<playing, cache, master_volume, cached_mix, sessionVars, micVars,
                   answered, opened, handle, lockVars>>

\* The speaker stream calls AudioEngine._speaker_callback on its thread.
T_SpeakerCallback(t) ==
    /\ Enters(t)
    /\ speaker_stream = "active"
    /\ Piece(t, "speaker_callback", "tick", "idle", Engine, lock, NoLocal)

\* AudioEngine._mix_playing_sounds, its loop: every unfinished instance is
\* pulled and the blocks are summed.
T_MixLoop(t) ==
    /\ Holds(t, "tick")
    /\ LET done == MixLoop(playing, Len(playing), BLOCK_SIZE)
       IN  Piece(t, "tick", "compact", "idle", [Engine EXCEPT !.playing = done.list],
                 lock, [local[t] EXCEPT !.mixed = done.mixed])

\* A clean-up that keeps the finished instances.
T_CompactKeeping(t) ==
    /\ Holds(t, "compact")
    /\ Piece(t, "compact", "release", "write", Engine, lock, local[t])

\* AudioEngine._mix_playing_sounds, line 322: the finished instances go.
T_Compact(t) ==
    /\ Holds(t, "compact")
    /\ Piece(t, "compact", "release", "write",
             [Engine EXCEPT !.playing = Unfinished(playing)], lock, local[t])

\* AudioEngine._mix_playing_sounds after the lock and the rest of
\* _speaker_callback: master volume, clamp, outdata, the cached mix.
T_SpeakerWrite(t) ==
    /\ pc[t].at = "write"
    /\ LET mixed == ClipBlock(ScaleBlock(local[t].mixed, master_volume), ONE)
       IN  /\ Logged("write", t, mixed)
           /\ cached_mix' = IF output_mode = "both" THEN mixed ELSE cached_mix
    /\ pc' = [pc EXCEPT ![t] = Idle]
    /\ local' = [local EXCEPT ![t] = NoLocal]
    /\ UNCHANGED <<playing, cache, master_volume, sessionVars, micVars, answered, status,
                   opened, handle, lock>>

\* ------------------------------------------------------------ specifications
\* Spec: the live set and the facade.  Every device opens and the cable runs at
\* the default rate; the application found the cable, and its configuration asks
\* for both outputs without passthrough.
Plays == {<<"a.wav", 5>>, <<"a.wav", 10>>, <<"b.wav", 10>>, <<"bad.wav", 10>>}
Next ==
    \/ \E fv \in Plays : PlaySound(fv[1], fv[2], {SAMPLE_RATE}, {"active"})
    \/ \E f \in Decodable : StopSound(f)
    \/ StopAll
    \/ \E m \in Modes : SetOutputMode(m, {SAMPLE_RATE}, {"active"})
    \/ RefreshAudio(TRUE, "both", FALSE, {SAMPLE_RATE}, {"active"})
    \/ SpeakerCallback
    \/ CableCallback

Spec == Init /\ [][Next]_vars

\* SpecVolume: the mix and the master volume, same devices and configuration.
MasterVolumes == {0 - 5, 0, 10, 15}
NextVolume ==
    \/ \E fv \in {<<"a.wav", 10>>, <<"b.wav", 10>>} :
           PlaySound(fv[1], fv[2], {SAMPLE_RATE}, {"active"})
    \/ \E v \in MasterVolumes : SetMasterVolume(v)
    \/ \E m \in Modes : SetOutputMode(m, {SAMPLE_RATE}, {"active"})
    \/ RefreshAudio(TRUE, "both", FALSE, {SAMPLE_RATE}, {"active"})
    \/ SpeakerCallback
    \/ CableCallback

SpecVolume == Init /\ [][NextVolume]_vars

\* SpecSession: the device session.  One clip at one volume; the cable may be
\* absent or found, its rate may change between two start() calls, and the
\* opening of any stream may fail.
Natives == {0, 44100}
Opens == {"active", None}
NextSession ==
    \/ \E f \in {"a.wav", "bad.wav"} : PlaySound(f, VOL, Natives, Opens)
    \/ \E m \in Modes \cup {"loud"} : SetOutputMode(m, Natives, Opens)
    \/ \E i \in BOOLEAN : RefreshAudio(i, output_mode, TRUE, Natives, Opens)
    \/ SpeakerCallback
    \/ CableCallback

SpecSession == Init /\ [][NextSession]_vars

\* SpecThreads: the UI thread changes the mode, restarts and stops the engine
\* while a hotkey thread plays a sound and the streams call back.  It starts
\* where VyberApp.__init__ leaves the engine when the cable is installed; every
\* device opens, the cable runs at the default rate.
InitThreads ==
    /\ playing = <<>>
    /\ cache = [f \in Paths |-> NoClip]
    /\ master_volume = 8
    /\ output_mode = "both"
    /\ virtual_cable_device = "CABLE Input"
    /\ mic_passthrough = FALSE
    /\ effective_rate = SAMPLE_RATE
    /\ speaker_stream = None
    /\ cable_stream = None
    /\ mic_stream = None
    /\ cached_mix = Zeros(BLOCK_SIZE)
    /\ mic_ring = Zeros(mic_ring_size)
    /\ mic_write_pos = 0
    /\ mic_read_pos = 0
    /\ outdata = <<>>
    /\ last_op = [op |-> "configure_audio", arg |-> "both"]
    /\ InitAux
    /\ solo = NoSolo /\ pulled = NoPull /\ decoded = NoDecode

NextThreads ==
    \/ \E m \in Modes : T_SetOutputMode("ui", m)
    \/ T_Start("ui")
    \/ T_Stop("ui")
    \/ T_PlaySound("hotkey", "a.wav", VOL)
    \/ \E t \in Threads :
           \/ T_CheckSpeaker(t)
           \/ T_CheckCable(t)
           \/ T_StopStreams(t)
           \/ T_Detect(t, SAMPLE_RATE)
           \/ T_OpenSpeaker(t, "active")
           \/ T_OpenCable(t, "active")
           \/ T_OpenMic(t, "active")
    \/ SpeakerCallback
    \/ CableCallback

SpecThreads == InitThreads /\ [][NextThreads]_vars

\* SpecLoad: a hotkey thread plays a sound while the UI thread restarts the
\* streams, and the cable's rate may differ from one start() to the next.  It
\* starts where SpecThreads starts.
LoadRates == {SAMPLE_RATE, 44100}
NextLoad ==
    \/ T_Start("ui")
    \/ T_HotkeyPlay("hotkey", "a.wav", VOL)
    \/ \E t \in Threads :
           \/ T_LoadSound(t)
           \/ T_StoreClip(t)
           \/ T_Acquire(t)
           \/ T_Append(t)
           \/ T_Release(t)
           \/ T_CheckSpeaker(t)
           \/ T_CheckCable(t)
           \/ T_StopStreams(t)
           \/ \E native \in LoadRates : T_Detect(t, native)
           \/ T_OpenSpeaker(t, "active")
           \/ T_OpenCable(t, "active")
           \/ T_OpenMic(t, "active")

SpecLoad == InitThreads /\ [][NextLoad]_vars

\* SpecLock: the UI thread, a hotkey thread and the speaker stream's thread
\* share the live set.  The UI thread plays or stops a sound, stops all, stops
\* the engine and asks for the count; the hotkey thread plays the sound; the speaker stream
\* ticks the mix.  It starts where VyberApp.__init__ leaves the engine when no
\* cable is installed and the configuration asks for the speakers alone.
InitLock ==
    /\ playing = <<>>
    /\ cache = [f \in Paths |-> NoClip]
    /\ master_volume = 8
    /\ output_mode = "speakers"
    /\ virtual_cable_device = None
    /\ mic_passthrough = FALSE
    /\ effective_rate = SAMPLE_RATE
    /\ speaker_stream = None
    /\ cable_stream = None
    /\ mic_stream = None
    /\ cached_mix = Zeros(BLOCK_SIZE)
    /\ mic_ring = Zeros(mic_ring_size)
    /\ mic_write_pos = 0
    /\ mic_read_pos = 0
    /\ outdata = <<>>
    /\ last_op = [op |-> "configure_audio", arg |-> "speakers"]
    /\ InitAux
    /\ solo = NoSolo /\ pulled = NoPull /\ decoded = NoDecode

NextLock ==
    \/ T_OnPlay("ui", "b.wav", VOL)
    \/ T_StopAll("ui")
    \/ T_StopEngine("ui")
    \/ T_GetPlayingCount("ui")
    \/ T_HotkeyPlay("hotkey", "b.wav", VOL)
    \/ T_SpeakerCallback("speaker")
    \/ \E t \in Callers :
           \/ T_Acquire(t)
           \/ T_Release(t)
           \/ T_Filepaths(t)
           \/ T_Remove(t)
           \/ T_LoadSound(t)
           \/ T_StoreClip(t)
           \/ T_Append(t)
           \/ T_Clear(t)
           \/ T_Count(t)
           \/ T_MixLoop(t)
           \/ T_Compact(t)
           \/ T_SpeakerWrite(t)
           \/ T_CheckSpeaker(t)
           \/ T_CheckCable(t)
           \/ T_StopStreams(t)
           \/ T_Detect(t, 0)
           \/ T_OpenSpeaker(t, "active")
           \/ T_OpenCable(t, None)
           \/ T_OpenMic(t, None)

SpecLock == InitLock /\ [][NextLock]_vars

\* SpecCancel: one sound played and stopped in mode both, every device
\* opening, with the blocks that still carry sound after a stop counted for
\* each output.  It starts where VyberApp.__init__ leaves the engine when the
\* cable is installed: constructed, then configured for both outputs without
\* passthrough.
InitCancel ==
    /\ playing = <<>>
    /\ cache = [f \in Paths |-> NoClip]
    /\ master_volume = 8
    /\ output_mode = "both"
    /\ virtual_cable_device = "CABLE Input"
    /\ mic_passthrough = FALSE
    /\ effective_rate = SAMPLE_RATE
    /\ speaker_stream = None
    /\ cable_stream = None
    /\ mic_stream = None
    /\ cached_mix = Zeros(BLOCK_SIZE)
    /\ mic_ring = Zeros(mic_ring_size)
    /\ mic_write_pos = 0
    /\ mic_read_pos = 0
    /\ outdata = <<>>
    /\ last_op = [op |-> "configure_audio", arg |-> "both"]
    /\ InitAuxWith("playing")
    /\ solo = NoSolo /\ pulled = NoPull /\ decoded = NoDecode

NextCancel ==
    \/ \E v \in {5, VOL} : PlaySound("a.wav", v, {SAMPLE_RATE}, {"active"})
    \/ StopAll
    \/ StopSound("a.wav")
    \/ SpeakerCallback
    \/ CableCallback

SpecCancel == InitCancel /\ [][NextCancel]_vars

\* SpecStart: start() on its own, under every configuration, with every device
\* opening, opening without starting, or failing.
NextStart ==
    \/ \E i \in BOOLEAN, m \in Modes, p \in BOOLEAN : ConfigureAudio(i, m, p)
    \/ Start(Natives, Outcomes)
    \/ SpeakerCallback
    \/ CableCallback

SpecStart == Init /\ [][NextStart]_vars

\* SpecRing: the microphone relay on its own.  The cable is installed and every
\* device opens; nothing is played, so what the cable callback writes is what
\* it took from the ring.
NextRing ==
    \/ \E m \in {"mic", "both"}, p \in BOOLEAN : ConfigureAudio(TRUE, m, p)
    \/ Start({SAMPLE_RATE}, {"active"})
    \/ /\ relayed.written < MaxMicBlocks
       /\ \E ch \in 1..CHANNELS : MicCallback(MicBlock(relayed.written + 1, ch), ch)
    \/ CableCallback

SpecRing == Init /\ [][NextRing]_vars

\* SpecRelay: the microphone relay next to everything else the engine does.
\* The application finds the cable and configures both outputs with
\* passthrough; every device opens.
NextRelay ==
    \/ ConfigureAudio(TRUE, "both", TRUE)
    \/ Start({SAMPLE_RATE}, {"active"})
    \/ Stop
    \/ \E m \in Modes : SetOutputMode(m, {SAMPLE_RATE}, {"active"})
    \/ playing = <<>> /\ PlaySound("a.wav", VOL, {SAMPLE_RATE}, {"active"})
    \/ SpeakerCallback
    \/ CableCallback
    \/ /\ relayed.written < MaxRelayBlocks
       /\ \E ch \in 1..CHANNELS : MicCallback(MicBlock(relayed.written + 1, ch), ch)

SpecRelay == Init /\ [][NextRelay]_vars

\* SpecLive: the device session of SpecSession at the default rate, with the
\* callbacks of the open streams kept firing: a stream that is running calls
\* its callback once per block for as long as it runs.
NextLive ==
    \/ PlaySound("a.wav", VOL, {SAMPLE_RATE}, Opens)
    \/ \E m \in Modes : SetOutputMode(m, {SAMPLE_RATE}, Opens)
    \/ \E i \in BOOLEAN : RefreshAudio(i, output_mode, FALSE, {SAMPLE_RATE}, Opens)
    \/ SpeakerCallback
    \/ CableCallback

SpecLive ==
    Init /\ [][NextLive]_vars /\ WF_vars(SpeakerCallback) /\ WF_vars(CableCallback)

\* SpecApp: the application's use of the cache and of the status snapshot.  The
\* paths given to invalidate_cache: the sounds, a path never loaded, the empty
\* string, and no path.
Invalidated == Paths \cup {"gone.wav", "", None}
NextApp ==
    \/ \E f \in Paths : PlaySound(f, VOL, {SAMPLE_RATE}, {"active"})
    \/ \E f \in Decodable : StopSound(f)
    \/ \E f \in Invalidated : InvalidateCache(f)
    \/ UpdateStatus
    \/ SpeakerCallback

SpecApp == Init /\ [][NextApp]_vars

\* SpecPull: one playback instance on its own, pulled with blocks of any size.
\* The clips are stereo buffers of 0..MaxClipLen frames without a zero sample.
MaxClipLen == 4
MaxPull == 3
Buffer(len) == [i \in 1..len |-> <<1 + (i % 2), 0 - i>>]

InitPull ==
    /\ InitEngine
    /\ \E len \in 0..MaxClipLen, v \in {5, 10, 20} :
           solo = [data |-> Buffer(len),
                   ps |-> PlayingSound(SoundClip("a.wav", SAMPLE_RATE), v)]
    /\ pulled = NoPull
    /\ decoded = NoDecode
    /\ InitAux

\* PlayingSound.get_samples(num_frames) on the instance.
Pull(num_frames) ==
    LET got == get_samples_of(solo.ps, solo.data, num_frames)
    IN  /\ solo' = [data |-> got.data, ps |-> got.ps]
        /\ pulled' = [num_frames |-> num_frames, samples |-> got.samples]
        /\ last_op' = [op |-> "get_samples", arg |-> None]
        /\ UNCHANGED <<audioVars, sessionVars, micVars, decoded, answered, after_stop,
                       status, threadVars, relayed, lockVars>>

NextPull == \E n \in 1..MaxPull : Pull(n)

SpecPull == InitPull /\ [][NextPull]_vars

\* SpecDecode: SoundClip._load_soundfile on files of 1..3 channels and
\* 0..MaxFrames frames, every sample different from the others of its frame.
MaxFrames == 4
Rates == {22050, 44100, 48000, 96000}
Read(sr, ch, len) ==
    [data |-> [i \in 1..len |-> [c \in 1..ch |-> 10 * c + i]], ch |-> ch, sr |-> sr]

\* SoundClip(filepath, target_rate) on a file for which sf.read returns `file`.
Decode(file, target_rate) ==
    /\ decoded' = [data |-> load_soundfile(file, target_rate), file |-> file,
                   done |-> TRUE, target |-> target_rate]
    /\ last_op' = [op |-> "SoundClip", arg |-> None]
    /\ UNCHANGED <<audioVars, sessionVars, micVars, solo, pulled, answered, after_stop,
                   status, threadVars, relayed, lockVars>>

NextDecode ==
    \E sr \in Rates, ch \in 1..3, len \in 0..MaxFrames, target \in Rates :
        Decode(Read(sr, ch, len), target)

SpecDecode == Init /\ [][NextDecode]_vars

\* -------------------------------------------------------------------- claims
FramesOf(inst) == Len(ClipData(inst.clip))
Count(list, inst) == Cardinality({i \in 1..Len(list) : list[i] = inst})
OutputCallbacks == {"speaker_callback", "cable_callback"}

\* C1: get_playing_count() equals the number of instances of the live set whose
\* cursor has not reached the end of their clip (position < frame count).
C1_CountIsCursorsBeforeEnd ==
    get_playing_count
      = Cardinality({i \in 1..Len(playing) : playing[i].position < FramesOf(playing[i])})

\* The sample of channel c that instance inst holds k frames after its cursor;
\* nothing past the end of the clip.
SampleAhead(inst, k, c) ==
    IF inst.position + k <= FramesOf(inst)
    THEN ClipData(inst.clip)[inst.position + k][c] ELSE 0
RECURSIVE VolumeSum(_, _, _, _)
VolumeSum(list, n, k, c) ==
    IF n = 0 THEN 0
    ELSE VolumeSum(list, n - 1, k, c)
         + (IF list[n].finished THEN 0 ELSE list[n].volume * SampleAhead(list[n], k, c))
ClampedSum(list, volume) ==
    [k \in 1..BLOCK_SIZE |->
        [c \in 1..CHANNELS |->
            Max(0 - ONE, Min(ONE, volume * VolumeSum(list, Len(list), k, c)))]]

\* C2: every sample of a block the mix tick returns is
\* clamp(master_volume * sum over the live instances of volume * clip sample, -1, 1),
\* and so lies in [-1, 1]: the speaker callback writes that block, and so does
\* the cable callback outside mode "both" (no passthrough in SpecVolume).
C2_MixIsClampedSum ==
    [][(last_op'.op = "speaker_callback"
        \/ (last_op'.op = "cable_callback" /\ output_mode # "both"))
       => /\ outdata' = ClampedSum(playing, master_volume)
          /\ \A k \in 1..BLOCK_SIZE : \A c \in 1..CHANNELS :
                 outdata'[k][c] >= 0 - ONE /\ outdata'[k][c] <= ONE]_vars

\* Two instances of the full-scale clip at volume 1.0 were mixed from their
\* start at master volume 1.0, and the block reads exactly 1.0.
C2_Witness ==
    /\ last_op.op = "speaker_callback"
    /\ master_volume = VOL
    /\ Len(playing) = 2
    /\ \A i \in 1..2 : /\ playing[i].clip.filepath = "a.wav"
                       /\ playing[i].volume = VOL
                       /\ playing[i].position = BLOCK_SIZE
    /\ \A k \in 1..BLOCK_SIZE : \A c \in 1..CHANNELS : outdata[k][c] = ONE

\* C3: play_sound of a loadable path appends one new instance with cursor 0 and
\* leaves the instances already there as they are; and a tick keeps every
\* instance that still has a whole block to play, so the count stays.
C3_PlayAppends ==
    [][/\ (last_op'.op = "play_sound" /\ last_op'.arg \in Decodable)
          => /\ Len(playing') = Len(playing) + 1
             /\ SubSeq(playing', 1, Len(playing)) = playing
             /\ playing'[Len(playing')].position = 0
             /\ ~playing'[Len(playing')].finished
             /\ playing'[Len(playing')].clip.filepath = last_op'.arg
             /\ get_playing_count' = get_playing_count + 1
       /\ (last_op'.op \in OutputCallbacks)
          => \A i \in 1..Len(playing) :
                 playing[i].position + BLOCK_SIZE <= FramesOf(playing[i])
                 => Count(playing', [playing[i] EXCEPT
                                       !.position = playing[i].position + BLOCK_SIZE])
                      + Count(playing', playing[i]) >= 1]_vars

\* play_sound("a.wav", 0.5) and then play_sound("a.wav", 1.0): two instances.
C3_Witness ==
    /\ last_op = [op |-> "play_sound", arg |-> "a.wav"]
    /\ Len(playing) = 2
    /\ playing[1].clip.filepath = "a.wav" /\ playing[1].volume = 5
    /\ playing[1].position = BLOCK_SIZE
    /\ playing[2].clip.filepath = "a.wav" /\ playing[2].volume = 10
    /\ playing[2].position = 0
    /\ get_playing_count = 2

\* C4: after stop_sound(path) the live set holds no unfinished instance of that
\* path, and holds every instance of another path as before, cursor and volume
\* included, and nothing else; after stop_all() the live set is empty.
C4_StopRemovesOnlyThePath ==
    [][/\ last_op'.op = "stop_sound"
          => /\ \A i \in 1..Len(playing') :
                    playing'[i].clip.filepath # last_op'.arg \/ playing'[i].finished
             /\ \A i \in 1..Len(playing) :
                    playing[i].clip.filepath # last_op'.arg
                    => Count(playing', playing[i]) = Count(playing, playing[i])
             /\ \A i \in 1..Len(playing') :
                    Count(playing', playing'[i]) = Count(playing, playing'[i])
       /\ last_op'.op = "stop_all" => playing' = <<>>]_vars

\* stop_sound("a.wav") ran after a tick that mixed a.wav (the only clip with a
\* positive left sample) with a b.wav instance, which is still there one block in.
C4_Witness ==
    /\ last_op = [op |-> "stop_sound", arg |-> "a.wav"]
    /\ cached_mix[1][1] > 0
    /\ Len(playing) = 1
    /\ playing[1].clip.filepath = "b.wav"
    /\ playing[1].position = BLOCK_SIZE

\* C5: with the master volume at 0 every block an output callback writes is all
\* zeros (no passthrough in SpecVolume: the block is its sound-effect part), and the
\* tick advances the cursors as it does at any volume.
C5_SilentAtVolumeZero ==
    [][(master_volume = 0 /\ last_op'.op \in OutputCallbacks)
       => /\ IsSilent(outdata')
          /\ playing' \in {playing,
                           mix_playing_sounds(playing, BLOCK_SIZE, VOL).playing}]_vars

\* C6: set_output_mode, with the start() it calls, leaves the live set as it
\* is: no instance added, removed or sent back to frame 0.
C6_ModeChangeKeepsLiveSet ==
    [][last_op'.op = "set_output_mode" => playing' = playing]_vars

\* The mode was set to "both" while an instance is a block into its clip.
C6_Witness ==
    /\ last_op = [op |-> "set_output_mode", arg |-> "both"]
    /\ output_mode = "both"
    /\ speaker_stream = "active"
    /\ cable_stream = "active"
    /\ Len(playing) = 1
    /\ playing[1].position = BLOCK_SIZE

CacheIsEmpty == \A f \in Paths : cache[f] = NoClip

\* C7: when a step changes the effective rate the cache is empty after it, and
\* a play_sound of a loadable path plays a clip decoded at the rate in force
\* when it loaded the clip, never a clip cached for another rate.
C7_RateChangeEvictsCache ==
    [][/\ effective_rate' # effective_rate => CacheIsEmpty'
       /\ (last_op'.op = "play_sound" /\ last_op'.arg \in Decodable)
          => playing'[Len(playing')].clip.sample_rate = effective_rate]_vars

\* a.wav was cached and played at 48000 Hz, the rate became 44100 Hz, and the
\* next play_sound decoded it again: the cache holds the 44100 Hz clip.
C7_Witness ==
    /\ last_op = [op |-> "play_sound", arg |-> "a.wav"]
    /\ effective_rate = 44100
    /\ cache["a.wav"] = SoundClip("a.wav", 44100)
    /\ Len(playing) = 2
    /\ playing[1].clip = SoundClip("a.wav", SAMPLE_RATE)
    /\ playing[2].clip = SoundClip("a.wav", 44100)

\* C8: a play_sound whose decode raises changes nothing: not the live set, not
\* the cache, not a stream handle, not the rate.
C8_FailedLoadHasNoEffect ==
    [][(last_op'.op = "play_sound" /\ last_op'.arg \notin Decodable)
       => UNCHANGED <<playing, cache, sessionVars, master_volume, cached_mix>>]_vars

\* play_sound("bad.wav") returned with the speaker stream the mode needs still
\* closed, and with an instance still playing.
C8_Witness ==
    /\ last_op = [op |-> "play_sound", arg |-> "bad.wav"]
    /\ output_mode = "both"
    /\ speaker_stream = None
    /\ cable_stream = "active"
    /\ Len(playing) = 1

\* C9: a pull with the cursor at the end of the clip returns num_frames frames
\* of zeros, leaves the cursor where it is and leaves finished set, as often
\* as it is repeated; a pull with fewer than num_frames frames left returns
\* them, times the volume, then zeros up to num_frames, and sets finished.
C9_TailIsSilence ==
    [][last_op'.op = "get_samples"
       => LET n == pulled'.num_frames
              at == solo.ps.position
              remaining == Len(solo.data) - at
          IN  /\ Len(pulled'.samples) = n
              /\ remaining <= 0
                 => /\ IsSilent(pulled'.samples)
                    /\ solo'.ps.position = at
                    /\ solo'.ps.finished
              /\ (remaining > 0 /\ remaining < n)
                 => /\ \A i \in 1..n : \A c \in 1..CHANNELS :
                           pulled'.samples[i][c]
                             = IF i <= remaining
                               THEN solo.data[at + i][c] * solo.ps.volume ELSE 0
                    /\ solo'.ps.position = Len(solo.data)
                    /\ solo'.ps.finished
              /\ solo.ps.finished
                 => solo'.ps = solo.ps /\ IsSilent(pulled'.samples)]_vars

\* The instance is finished at the end of a clip of MaxClipLen frames, and its
\* last pull, of MaxPull frames, returned silence only: a pull at the tail.
C9_Witness ==
    /\ last_op.op = "get_samples"
    /\ solo.ps.finished
    /\ Len(solo.data) = MaxClipLen
    /\ solo.ps.position = MaxClipLen
    /\ pulled.num_frames = MaxPull
    /\ IsSilent(pulled.samples)

DecodedFrames == Len(decoded.data)
IsStereo(data) == \A i \in 1..Len(data) : DOMAIN data[i] = 1..CHANNELS

\* C10: a decoded clip has exactly 2 channels, and when the native rate differs
\* from the target rate its frame count is
\* round(original_frames * target_rate / native_rate).
C10_FrameCountIsRounded ==
    decoded.done
    => /\ IsStereo(decoded.data)
       /\ decoded.file.sr # decoded.target
          => DecodedFrames
               = Round(Len(decoded.file.data) * decoded.target, decoded.file.sr)

\* C10 as amended: 2 channels, a mono source in both of them, the first two
\* channels of a wider source, and a frame count of
\* original_frames * target_rate / native_rate truncated to an integer.
C10_StereoAndTruncatedFrameCount ==
    decoded.done
    => /\ IsStereo(decoded.data)
       /\ decoded.file.ch = 1
          => \A i \in 1..DecodedFrames : decoded.data[i][1] = decoded.data[i][2]
       /\ decoded.file.sr = decoded.target
          => /\ DecodedFrames = Len(decoded.file.data)
             /\ \A i \in 1..DecodedFrames : \A c \in 1..CHANNELS :
                    /\ decoded.file.ch = 1
                       => decoded.data[i][c] = decoded.file.data[i][1]
                    /\ decoded.file.ch > 1
                       => decoded.data[i][c] = decoded.file.data[i][c]
       /\ decoded.file.sr # decoded.target
          => /\ DecodedFrames * decoded.file.sr
                  <= Len(decoded.file.data) * decoded.target
             /\ (DecodedFrames + 1) * decoded.file.sr
                  > Len(decoded.file.data) * decoded.target

\* A mono file of 3 frames at 44100 Hz was decoded for 96000 Hz: 6 frames (the
\* product is 6.53), both channels the same.
C10_Witness ==
    /\ decoded.done
    /\ decoded.file.ch = 1
    /\ decoded.file.sr = 44100 /\ decoded.target = 96000
    /\ Len(decoded.file.data) = 3
    /\ DecodedFrames = 6
    /\ \A i \in 1..6 : decoded.data[i][1] = decoded.data[i][2]

\* C11: invalidate_cache(path) with a path argument, the empty string included,
\* removes at most the cache entry of that path and leaves every other entry,
\* the live set and the streams as they were.
C11_PathInvalidationIsLocal ==
    [][(last_op'.op = "invalidate_cache" /\ last_op'.arg # None)
       => /\ \A f \in Paths : f # last_op'.arg => cache'[f] = cache[f]
          /\ UNCHANGED <<playing, sessionVars>>]_vars

C13_StartFailuresAreIsolated ==
    [][last_op'.op = "start"
       => /\ answered'.speaker = "active" <=> speaker_stream' = "active"
          /\ answered'.cable = "active" <=> cable_stream' = "active"
          /\ answered'.mic = "active" <=> mic_stream' = "active"]_vars

\* start() returned with the speaker not opened, the cable stream made but not
\* started, and the microphone running.
C13_Witness ==
    /\ last_op.op = "start"
    /\ output_mode = "both"
    /\ answered.speaker = None /\ speaker_stream = None
    /\ answered.cable = "inactive" /\ cable_stream = "inactive"
    /\ answered.mic = "active" /\ mic_stream = "active"

\* C14: play_sound on a loadable path appends the instance, and when every role
\* the output mode needs has an active stream it closes and reopens none: the
\* handles, the rate and the configuration stay, and no cache entry is lost,
\* whatever the devices would have answered.
C14_PlayRestartsOnlyWhenNeeded ==
    [][(last_op'.op = "play_sound" /\ last_op'.arg \in Decodable)
       => /\ Len(playing') = Len(playing) + 1
          /\ SubSeq(playing', 1, Len(playing)) = playing
          /\ ( /\ needs_speaker(Engine) => speaker_stream = "active"
               /\ needs_cable(Engine) => cable_stream = "active" )
             => /\ UNCHANGED sessionVars
                /\ \A f \in Paths : cache[f] # NoClip => cache'[f] = cache[f]]_vars

\* play_sound returned a second time with both outputs running at the cable's
\* rate and the microphone stream open.
C14_Witness ==
    /\ last_op = [op |-> "play_sound", arg |-> "a.wav"]
    /\ output_mode = "both"
    /\ speaker_stream = "active" /\ cable_stream = "active" /\ mic_stream = "active"
    /\ effective_rate = 44100
    /\ Len(playing) = 2
    /\ playing[2].position = 0 /\ playing[1].position = BLOCK_SIZE

\* C15: the master volume stays in [0.0, 1.0]: set_master_volume(v) stores v
\* when it is in the range, 0 when it is below, 1 when it is above, and no
\* other operation changes the master volume.
C15_MasterVolumeInRange ==
    [][/\ 0 <= master_volume' /\ master_volume' <= VOL
       /\ last_op'.op # "set_master_volume" => master_volume' = master_volume
       /\ \A v \in MasterVolumes :
              (last_op'.op = "set_master_volume" /\ last_op'.arg = ToString(v))
              => master_volume' = IF v < 0 THEN 0 ELSE IF v > VOL THEN VOL ELSE v]_vars

\* set_master_volume was given a negative volume while a sound was playing.
C15_Witness ==
    /\ last_op = [op |-> "set_master_volume", arg |-> ToString(0 - 5)]
    /\ master_volume = 0
    /\ Len(playing) = 1 /\ playing[1].position = BLOCK_SIZE

\* C18: in mode both the cable callback writes the block the speaker callback
\* cached and pulls nothing, and when no speaker stream is running it ticks the
\* mix itself: the live instances advance and their block is written (the
\* microphone ring is silent in SpecSession).
C18_CableFallsBackToTick ==
    [][(last_op'.op = "cable_callback" /\ output_mode = "both")
       => IF speaker_stream = "active"
          THEN playing' = playing /\ outdata' = cached_mix
          ELSE LET tick == mix_playing_sounds(playing, BLOCK_SIZE, master_volume)
               IN  playing' = tick.playing /\ outdata' = tick.mixed]_vars

\* C20: after stop_sound(path) or stop_all() has emptied the live set, at most
\* one further block written to the speaker and at most one further block
\* written to the cable carries the sound of the removed instances, however
\* the two callbacks interleave.
C20_CancelWithinOneBlock ==
    after_stop.speaker <= 1 /\ after_stop.cable <= 1

\* C17: at every moment every open stream is the one the engine's handle for
\* its role refers to, so at most one stream is open per role, however the
\* start() calls of the UI thread and of a hotkey thread interleave.
C17_OneStreamPerRole ==
    \A s \in opened : handle[s.role] = s.id

\* C19: whenever a speaker stream and a cable stream are open at the same
\* time, the cable callback pulls nothing from the instances, also between
\* set_output_mode's assignment and the teardown of the old streams.
C19_CableNeverPullsBesideSpeaker ==
    [][(last_op'.op = "cable_callback" /\ handle["speaker"] # 0 /\ handle["cable"] # 0)
       => playing' = playing]_vars

\* C12: when stop() has completed no stream of any role is open and the live
\* set is empty.
C12_StopClosesEveryStream ==
    last_op.op = "stop" => (opened = {} /\ playing = <<>>)


\* The distance from ring position a forward to ring position b.
Ahead(a, b) == (b - a) % mic_ring_size
\* The ring frame at position k (positions count from 0).
RingAt(k) == mic_ring[(k % mic_ring_size) + 1]

\* C21: a cable callback copies only ring frames that lie between the read
\* cursor and the write cursor it saw, so frames the microphone callback has
\* written (none of them still holds the zeros the ring was made with), and it
\* leaves the read cursor at or before that write cursor.
C21_ReadsOnlyWrittenFrames ==
    [][(last_op'.op = "cable_callback" /\ mic_passthrough)
       => LET available == Ahead(mic_read_pos, mic_write_pos)
              read == mic_read(mic_ring, mic_read_pos, mic_write_pos, BLOCK_SIZE)
              copied == {(read.rp + i) % mic_ring_size : i \in 0..(read.n - 1)}
          IN  /\ \A k \in copied :
                     /\ Ahead(mic_read_pos, k) < available
                     /\ RingAt(k) # ZeroFrame
              /\ \A i \in 1..BLOCK_SIZE :
                     outdata'[i] # ZeroFrame
                     => \E k \in copied : outdata'[i] = RingAt(k)
              /\ Ahead(mic_read_pos, mic_read_pos') <= available
              /\ Ahead(mic_read_pos', mic_write_pos) <= available]_vars

\* A cable callback read the last block of the ring after the writer had gone
\* round once.
C21_Witness ==
    /\ last_op.op = "cable_callback"
    /\ mic_passthrough
    /\ relayed.written > 8
    /\ mic_read_pos = 0
    /\ ~IsSilent(outdata)


\* C22: a cable callback that finds more than half the ring between the
\* cursors delivers the block written last and leaves its cursor within one
\* block of the writer's; otherwise it delivers the min(n, available) frames
\* at its cursor, across the end of the ring where they lie there, then zeros
\* up to n frames, and moves its cursor on by the frames delivered.
C22_SkipsWhenLapped ==
    [][(last_op'.op = "cable_callback" /\ mic_passthrough)
       => LET n == BLOCK_SIZE
              rp == mic_read_pos
              wp == mic_write_pos
              available == Ahead(rp, wp)
              delivered == Min(n, available)
          IN  IF available > mic_ring_size \div 2
              THEN /\ \A i \in 1..n : outdata'[i] = RingAt(wp - n + i - 1)
                   /\ \A i \in 1..n : \A c \in 1..CHANNELS :
                          outdata'[i][c] = relayed.written
                   /\ Ahead(mic_read_pos', wp) <= n
              ELSE /\ \A i \in 1..n :
                          outdata'[i] = IF i <= delivered THEN RingAt(rp + i - 1)
                                        ELSE ZeroFrame
                   /\ mic_read_pos' = (rp + delivered) % mic_ring_size]_vars

\* The writer was five blocks ahead of a reader that had read two, and the
\* cable callback delivered the seventh block, the one written last.
C22_Witness ==
    /\ last_op.op = "cable_callback"
    /\ mic_passthrough
    /\ relayed = [written |-> 7, heard |-> 7, missed |-> 4]
    /\ mic_read_pos = mic_write_pos
    /\ \A i \in 1..BLOCK_SIZE : outdata[i] = <<7, 7>>

\* C29: the microphone blocks reach the cable output in the order they were
\* written and none of them twice: the block a cable callback adds to its
\* output is one whole block the microphone wrote, later than every block
\* added before it.
C29_RelayKeepsWriteOrder ==
    [][(last_op'.op = "cable_callback" /\ ~IsSilent(outdata'))
       => /\ \A i \in 1..BLOCK_SIZE : \A c \in 1..CHANNELS :
                 outdata'[i][c] = outdata'[1][1]
          /\ outdata'[1][1] > relayed.heard
          /\ outdata'[1][1] <= relayed.written
          /\ relayed'.heard = outdata'[1][1]]_vars

\* The writer went round the whole ring before the first cable callback ran,
\* and that callback delivered the ninth block: eight were lost, none came
\* out of order.
C29_Witness ==
    /\ last_op.op = "cable_callback"
    /\ relayed = [written |-> 9, heard |-> 9, missed |-> 8]
    /\ \A i \in 1..BLOCK_SIZE : outdata[i] = <<9, 9>>

\* C23: each cursor of the ring has one writer.  Only the microphone callback
\* changes the write cursor, moving it on by the frames it wrote, modulo the
\* ring's size; only the cable callback changes the read cursor; start, stop,
\* set_output_mode, play_sound and the speaker callback change neither.
C23_OneWriterPerCursor ==
    [][/\ mic_write_pos' # mic_write_pos => last_op'.op = "mic_callback"
       /\ last_op'.op = "mic_callback"
          => mic_write_pos' = (mic_write_pos + BLOCK_SIZE) % mic_ring_size
       /\ mic_read_pos' # mic_read_pos => last_op'.op = "cable_callback"
       /\ last_op'.op \notin {"mic_callback", "cable_callback"}
          => UNCHANGED <<mic_write_pos, mic_read_pos>>]_vars

\* stop() ran after a sound had been played, with the writer three blocks into
\* the ring and the reader one block behind it: the streams are closed and
\* both cursors are where they were.
C23_Witness ==
    /\ last_op.op = "stop"
    /\ mic_write_pos = 3 * BLOCK_SIZE
    /\ mic_read_pos = 2 * BLOCK_SIZE
    /\ speaker_stream = None /\ mic_stream = None
    /\ cache["a.wav"] # NoClip

\* C30: the clip of every instance in the live set was decoded at the rate
\* the engine's streams run at now, also after a start() or set_output_mode
\* that changed the effective rate while instances were playing.
C30_LiveClipsAtEffectiveRate ==
    \A i \in 1..Len(playing) : playing[i].clip.sample_rate = effective_rate

\* C27: whatever the block sizes of the pulls, the cursor of an instance stays
\* between 0 and the frame count of its clip and never goes back, a pull of n
\* frames moves it on by exactly min(n, frame count - cursor), and the
\* clip's buffer is after the pull what it was before, at every volume.
C27_CursorWithinClip ==
    [][last_op'.op = "get_samples"
       => LET n == pulled'.num_frames
              cursor == solo.ps.position
              frame_count == Len(solo.data)
          IN  /\ 0 <= solo'.ps.position /\ solo'.ps.position <= frame_count
              /\ solo'.ps.position >= cursor
              /\ solo'.ps.position = cursor + Min(n, frame_count - cursor)
              /\ solo'.data = solo.data]_vars

\* An instance at volume 0.5, one frame into a clip of MaxClipLen frames, was
\* pulled for MaxPull frames: the cursor is at the end and the clip is whole.
C27_Witness ==
    /\ last_op.op = "get_samples"
    /\ solo.ps.volume = 5
    /\ pulled.num_frames = MaxPull
    /\ solo.ps.position = MaxClipLen
    /\ ~solo.ps.finished
    /\ solo.data = Buffer(MaxClipLen)

\* C28: every played instance ends.  Once nothing runs but the callbacks of
\* the open streams (no further play_sound, an output stream open and its
\* callback firing), the live set becomes empty and stays so, in every mode,
\* also in mode both with the cable stream alone.
C28_EveryInstanceEnds ==
    <>[](last_op.op \in OutputCallbacks) => <>[](playing = <<>>)

\* C24: in every reachable state every clip in the cache was decoded for the
\* rate _effective_rate holds, however load_sound on one thread and start() on
\* another interleave.
C24_CachedClipsAtEffectiveRate ==
    \A f \in Paths : cache[f] # NoClip => cache[f].sample_rate = effective_rate

\* The pieces that read or change the live set.
LiveSetPieces == {"append", "remove", "clear", "tick", "compact", "count", "filepaths"}

\* C25: the live set is changed and read only inside the engine lock.  Every
\* append, removal, pull, clean-up and every read for the count or the paths
\* is a step of the thread that holds the lock, which holds it still after the
\* step; nothing else changes the live set; a held lock passes to no other
\* thread before its holder releases it; and play_sound decodes the clip and
\* enters it into the cache while it does not hold the lock.
C25_LiveSetUnderLock ==
    [][/\ last_op'.op \in LiveSetPieces => (lock = last_op'.arg /\ lock' = lock)
       /\ playing' # playing => last_op'.op \in LiveSetPieces
       /\ (lock # None /\ lock' # lock) => (lock' = None /\ last_op'.arg = lock)
       /\ last_op'.op \in {"load_sound", "store_clip"} => lock # last_op'.arg]_vars

\* The hotkey thread appended its instance inside the lock while the speaker
\* thread, in its callback, waits for the lock to tick the mix.
C25_Witness ==
    /\ last_op = [op |-> "append", arg |-> "hotkey"]
    /\ lock = "hotkey"
    /\ pc["speaker"].at = "tick"
    /\ Len(playing) = 1

\* C26: whenever the engine lock is not held the live set holds no finished
\* instance, so get_playing_count() is its size: the tick that marks an
\* instance finished drops it before it releases the lock.
C26_NoFinishedOutsideLock ==
    lock = None
    => /\ \A i \in 1..Len(playing) : ~playing[i].finished
       /\ get_playing_count = Len(playing)

\* The speaker thread released the lock after a tick that mixed the last
\* frame of the sound and dropped its instance.
C26_Witness ==
    /\ last_op = [op |-> "release", arg |-> "speaker"]
    /\ lock = None
    /\ playing = <<>>
    /\ ~IsSilent(local["speaker"].mixed)

==========================================================================
